---- MODULE Spec2Model ----
(***************************************************************************)
(* Model of src/bot.py: the Instagram -> Discord mirror bot.               *)
(*                                                                         *)
(* Posts are identified by their publication rank: shortcode k is the     *)
(* k-th post the account ever published, so "newer" is ">" on shortcodes. *)
(* profile_posts is what Profile.get_posts() yields, newest first.        *)
(***************************************************************************)
EXTENDS Integers, Sequences, FiniteSets, TLC

\* ------------------------------------------------------------------ bounds
\* Number of posts the account publishes in a run of the model.
MaxPosts == 6
\* Posts the account already holds when the bot is installed.
MaxInitialPosts == 1
\* Process crashes (each followed by a restart) in a run of the model.
MaxCrashes == 1
\* Shortcodes and list lengths of the inputs of fetch_new_posts taken alone.
MaxShortcode == 5
\* max_posts arguments of fetch_new_posts taken alone: 1..MaxCount.
MaxCount == 4
\* Times of day of within_evening_window taken alone: 0..MaxTime.
MaxTime == 5
\* Cursor advances of BotState taken alone.
MaxAdvances == 3
\* Children of a carousel post.
MaxChildren == 3
\* Uncaught message.edit errors explored per post.
MaxEditErrors == 1
\* Values of check_interval_minutes, and minutes of ticking, of the clock runs.
MaxInterval == 61
MaxMinutes == 125

VARIABLES
    settings,        \* Settings: the fields the cycle reads, fixed at startup
    profile_posts,   \* the account's posts, newest first (shortcodes)
    last_shortcode,  \* BotState.last_shortcode, in memory
    state_file,      \* contents of data/state.json
    file_before,     \* state.json as it was when the running save() opened it
    pc,              \* where the process is
    posts,           \* _process_new_posts: the batch fetched by the last tick,
                     \* oldest first (kept after the cycle, until the next tick)
    idx,             \* _process_new_posts: position of the for loop in posts
    channel,         \* shortcodes of the messages the channel accepted, in order
    result,          \* how the last tick of instagram_poll ended, "running"
                     \* from the moment its fetch has returned posts
    crashes,         \* number of process crashes so far
    initial,         \* number of posts the account held at installation
    call             \* a pure function applied on its own: arguments and result

vars == <<settings, profile_posts, last_shortcode, state_file, file_before, pc,
          posts, idx, channel, result, crashes, initial, call>>

\* ------------------------------------------------------------- data
\* Optional[str] None for a shortcode (bot.py:155); shortcodes are 1, 2, ...
NoShortcode == 0

Min(a, b) == IF a <= b THEN a ELSE b

Reverse(s) == [i \in 1..Len(s) |-> s[Len(s) + 1 - i]]

Range(s) == {s[i] : i \in 1..Len(s)}

\* state.json: missing, a complete JSON payload, or what an interrupted
\* open("w") + json.dump leaves: a file truncated to nothing, or a prefix of
\* the payload. No proper prefix of the payload is a JSON document.
NoFile == [kind |-> "absent", id |-> NoShortcode]
\* A save that writes the shortcode under a key load() does not read.
JsonFileWrongKey(id) == [kind |-> "json", id |-> NoShortcode]

JsonFile(id) == [kind |-> "json", id |-> id]
EmptyFile == [kind |-> "empty", id |-> NoShortcode]
PartialFile == [kind |-> "partial", id |-> NoShortcode]

NoCall == [fn |-> "none"]

\* ------------------------------------------------------ pure functions
\* A window test that leaves out the two ends of a same-day window.
WindowTestStrict(start, end, now) ==
    IF start <= end THEN start < now /\ now < end
    ELSE now >= start \/ now <= end

\* InstaMirrorBot.within_evening_window, on times of day as integers.
within_evening_window(start, end, now) ==
    IF start <= end THEN start <= now /\ now <= end
    ELSE now >= start \/ now <= end

\* The for loop of _fetch_new_posts_sync over source[i..], collected so far.
RECURSIVE CollectPosts(_, _, _, _, _)
CollectPosts(source, i, cursor, max_posts, collected) ==
    IF i > Len(source) THEN collected
    ELSE IF cursor # NoShortcode /\ source[i] = cursor THEN collected
    ELSE LET c == Append(collected, source[i])
         IN IF Len(c) >= max_posts THEN c
            ELSE CollectPosts(source, i + 1, cursor, max_posts, c)

\* A fetch that forgets collected.reverse().
FetchNotReversed(source, cursor, max_posts) ==
    CollectPosts(source, 1, cursor, max_posts, <<>>)

\* A fetch that does not stop at the cursor.
FetchIgnoringCursor(source, cursor, max_posts) ==
    Reverse(CollectPosts(source, 1, NoShortcode, max_posts, <<>>))

\* InstagramFetcher.fetch_new_posts on the list get_posts() yields: the loop,
\* then collected.reverse(). The lock is always free: ticks do not overlap.
fetch_new_posts(source, cursor, max_posts) ==
    Reverse(CollectPosts(source, 1, cursor, max_posts, <<>>))

\* ------------------------------------------------------------ settings
\* The settings the cycle reads, times of day as minutes since midnight:
\* the defaults (bot.py:115-119: every 20 minutes, 17:00 - 23:59, no
\* backfill), and backfill with the wrap-around window 21:00 - 02:00 of the
\* comment at bot.py:316.
SettingsChoices ==
    {[backfill_on_start |-> FALSE, evening_start |-> 17 * 60,
      evening_end |-> 23 * 60 + 59, check_interval_minutes |-> 20],
     [backfill_on_start |-> TRUE, evening_start |-> 21 * 60,
      evening_end |-> 2 * 60, check_interval_minutes |-> 20]}

\* Wall-clock times at which a tick may run, as minutes since midnight.
TickTimes == {2 * 60, 12 * 60, 17 * 60, 17 * 60 + 7, 21 * 60 + 7}

\* datetime.minute
Minute(now) == now % 60

\* ------------------------------------------------------------- startup
Init ==
    /\ settings \in SettingsChoices
    /\ initial \in 0..MaxInitialPosts
    /\ profile_posts = [i \in 1..initial |-> initial + 1 - i]
    /\ last_shortcode = NoShortcode
    /\ state_file = NoFile
    /\ file_before = NoFile
    /\ pc = "setup"
    /\ posts = <<>>
    /\ idx = 0
    /\ channel = <<>>
    /\ result = "none"
    /\ crashes = 0
    /\ call = NoCall

\* BotState.load as setup_hook runs it: a missing file leaves the cursor
\* None, a JSON payload sets it, anything else raises RuntimeError and the
\* bot never starts polling.
Setup ==
    /\ pc = "setup"
    /\ IF state_file.kind = "absent"
       THEN pc' = "idle" /\ UNCHANGED last_shortcode
       ELSE IF state_file.kind = "json"
       THEN pc' = "idle" /\ last_shortcode' = state_file.id
       ELSE pc' = "dead" /\ UNCHANGED last_shortcode
    /\ UNCHANGED <<settings, profile_posts, state_file, file_before, posts, idx,
                   channel, result, crashes, initial, call>>

\* ----------------------------------------------------------- the cycle
\* instagram_poll without its try/except: the exception leaves the
\* coroutine and tasks.loop stops.
PollRaises(how) ==
    /\ pc' = "stopped"
    /\ result' = how

\* The except branch of instagram_poll: the error is printed and the
\* coroutine returns, so tasks.loop schedules the next tick.
PollExcept(how) ==
    /\ pc' = "idle"
    /\ result' = how

\* A cycle that never takes the seeding branch.
NeverSeeds == FALSE

\* _process_new_posts: the test of the first branch, taken while there is no
\* cursor and backfill is off.
NeedsSeeding ==
    last_shortcode = NoShortcode /\ ~settings.backfill_on_start

\* A loop body that runs _process_new_posts on every tick.
PollUngated(now) ==
    /\ pc = "idle"
    /\ pc' = IF NeedsSeeding THEN "seed_fetch" ELSE "fetch"
    /\ UNCHANGED <<result, posts, idx>>
    /\ UNCHANGED <<settings, profile_posts, last_shortcode, state_file, file_before,
                   channel, crashes, initial>>

\* One tick of instagram_poll at local time `now`, up to the call of
\* _process_new_posts. target_channel is set by setup_hook before the loop
\* starts, or setup_hook raises: the check at bot.py:328 always passes.
instagram_poll(now) ==
    /\ pc = "idle"
    /\ IF ~within_evening_window(settings.evening_start, settings.evening_end, now)
       THEN result' = "outside" /\ posts' = <<>> /\ idx' = 0 /\ UNCHANGED pc
       ELSE IF Minute(now) % settings.check_interval_minutes # 0
       THEN result' = "off_interval" /\ posts' = <<>> /\ idx' = 0 /\ UNCHANGED pc
       ELSE /\ pc' = IF NeedsSeeding THEN "seed_fetch" ELSE "fetch"
            /\ UNCHANGED <<result, posts, idx>>
    /\ UNCHANGED <<settings, profile_posts, last_shortcode, state_file, file_before,
                   channel, crashes, initial>>

\* The tasks.loop tick, at any of the clock readings.
Tick ==
    /\ \E now \in TickTimes : instagram_poll(now)
    /\ UNCHANGED call

\* BotState.save, first half: open("w") truncates the file, or raises OSError
\* and leaves it alone.
SaveOpen(here, next) ==
    /\ pc = here
    /\ \/ /\ file_before' = state_file
          /\ state_file' = EmptyFile
          /\ pc' = next
          /\ UNCHANGED result
       \/ /\ PollExcept("save_failed")
          /\ UNCHANGED <<state_file, file_before>>
    /\ UNCHANGED <<settings, profile_posts, last_shortcode, posts, idx, channel,
                   crashes, initial, call>>

\* BotState.save, second half: json.dump and the close of the with block
\* write the payload, or raise OSError with none or part of it written.
SaveWrite(here) ==
    /\ pc = here
    /\ \/ /\ state_file' = JsonFile(last_shortcode)
          /\ pc' = IF here = "save_write" /\ idx < Len(posts) THEN "download" ELSE "idle"
          /\ idx' = IF here = "save_write" /\ idx < Len(posts) THEN idx + 1 ELSE idx
          /\ result' = IF here = "seed_save_write" THEN "seeded"
                       ELSE IF idx < Len(posts) THEN "running" ELSE "done"
       \/ /\ state_file' \in {EmptyFile, PartialFile}
          /\ PollExcept("save_failed")
          /\ UNCHANGED idx
    /\ file_before' = NoFile
    /\ UNCHANGED <<settings, profile_posts, last_shortcode, posts, channel,
                   crashes, initial, call>>

\* _process_new_posts, seeding branch: fetch_new_posts(None, 1), then the
\* cursor is set to the post found, without a relay.
SeedFetch ==
    /\ pc = "seed_fetch"
    /\ \/ /\ PollExcept("fetch_failed")
          /\ posts' = <<>>
          /\ idx' = 0
          /\ UNCHANGED last_shortcode
       \/ LET latest == fetch_new_posts(profile_posts, NoShortcode, 1)
          IN /\ posts' = latest
             /\ idx' = 0
             /\ IF latest # <<>>
                THEN /\ last_shortcode' = latest[Len(latest)]
                     /\ pc' = "seed_save_open"
                     /\ result' = "running"
                ELSE /\ pc' = "idle"
                     /\ result' = "empty"
                     /\ UNCHANGED last_shortcode
    /\ UNCHANGED <<settings, profile_posts, state_file, file_before, channel,
                   crashes, initial, call>>

SeedSaveOpen == SaveOpen("seed_save_open", "seed_save_write")

SeedSaveWrite == SaveWrite("seed_save_write")

\* _process_new_posts, relay branch: max_posts and the fetch.
Fetch ==
    /\ pc = "fetch"
    /\ \/ /\ PollExcept("fetch_failed")
          /\ posts' = <<>>
          /\ idx' = 0
       \/ LET max_posts == IF last_shortcode = NoShortcode THEN 1 ELSE 3
              got == fetch_new_posts(profile_posts, last_shortcode, max_posts)
          IN /\ posts' = got
             /\ IF got # <<>>
                THEN idx' = 1 /\ pc' = "download" /\ result' = "running"
                ELSE idx' = 0 /\ pc' = "idle" /\ result' = "empty"
    /\ UNCHANGED <<settings, profile_posts, last_shortcode, state_file, file_before,
                   channel, crashes, initial, call>>

\* A loop that swallows a failed download and goes on to the next post.
DownloadFailureSkips ==
    /\ pc = "download"
    /\ \/ /\ IF idx < Len(posts)
             THEN idx' = idx + 1 /\ pc' = "download" /\ UNCHANGED result
             ELSE idx' = idx /\ pc' = "idle" /\ result' = "done"
       \/ pc' = "send" /\ UNCHANGED <<result, idx>>
    /\ UNCHANGED <<settings, profile_posts, last_shortcode, state_file, file_before,
                   posts, channel, crashes, initial, call>>

\* _relay_post up to download_media: raise_for_status or the transport raises,
\* or every file is downloaded.
Download ==
    /\ pc = "download"
    /\ \/ PollExcept("relay_failed")
       \/ pc' = "send" /\ UNCHANGED result
    /\ UNCHANGED <<settings, profile_posts, last_shortcode, state_file, file_before,
                   posts, idx, channel, crashes, initial, call>>

\* A loop that advances the cursor although the send raised.
SendFailsButAdvances ==
    /\ pc = "send"
    /\ PollExcept("relay_failed")
    /\ last_shortcode' = posts[idx]
    /\ UNCHANGED channel

\* target_channel.send raises: the exception leaves the for loop.
SendFails ==
    /\ pc = "send"
    /\ PollExcept("relay_failed")
    /\ UNCHANGED <<last_shortcode, channel>>

\* target_channel.send returns the message.
SendOk ==
    /\ pc = "send"
    /\ channel' = Append(channel, posts[idx])
    /\ pc' = "suppress"
    /\ UNCHANGED <<last_shortcode, result>>

Send ==
    /\ SendFails \/ SendOk
    /\ UNCHANGED <<settings, profile_posts, state_file, file_before, posts, idx,
                   crashes, initial, call>>

\* message.edit(suppress=True) returns, or raises the discord.HTTPException
\* that discord.py documents for it and that the code catches; then
\* _relay_post returns and the loop assigns the cursor.
Suppress ==
    /\ pc = "suppress"
    /\ \E edit \in {"ok", "HTTPException"} :
         /\ last_shortcode' = posts[idx]
         /\ pc' = "save_open"
    /\ UNCHANGED <<settings, profile_posts, state_file, file_before, posts, idx,
                   channel, result, crashes, initial, call>>

RelaySaveOpen == SaveOpen("save_open", "save_write")

RelaySaveWrite == SaveWrite("save_write")

\* ------------------------------------------------------- environment
\* The account publishes a post. Posts are never removed: the remote list
\* only grows.
Publish ==
    /\ Len(profile_posts) < MaxPosts
    /\ profile_posts' = <<Len(profile_posts) + 1>> \o profile_posts
    /\ UNCHANGED <<settings, last_shortcode, state_file, file_before, pc, posts,
                   idx, channel, result, crashes, initial, call>>

\* The process dies and is started again: memory is lost, the file stays as
\* it is; a file open for writing keeps what reached it, nothing or a part.
\* A crash inside the for loop is recorded as the last tick's end, with the
\* batch and the post in flight (posts[idx]).
Crash ==
    /\ pc \notin {"setup", "dead", "stopped"}
    /\ crashes < MaxCrashes
    /\ crashes' = crashes + 1
    /\ state_file' \in IF pc \in {"save_write", "seed_save_write"}
                       THEN {EmptyFile, PartialFile}
                       ELSE {state_file}
    /\ file_before' = NoFile
    /\ last_shortcode' = NoShortcode
    /\ pc' = "setup"
    /\ IF pc \in {"download", "send", "suppress", "save_open", "save_write"}
       THEN result' = "crashed" /\ UNCHANGED <<posts, idx>>
       ELSE result' = "none" /\ posts' = <<>> /\ idx' = 0
    /\ UNCHANGED <<settings, profile_posts, channel, initial, call>>

Next ==
    \/ Setup
    \/ Tick
    \/ SeedFetch
    \/ SeedSaveOpen
    \/ SeedSaveWrite
    \/ Fetch
    \/ Download
    \/ Send
    \/ Suppress
    \/ RelaySaveOpen
    \/ RelaySaveWrite
    \/ Publish
    \/ Crash

Spec == Init /\ [][Next]_vars

\* ------------------------------------- the pure functions on their own
\* The process is not running: only `call` changes.
NotRunning ==
    /\ settings = [backfill_on_start |-> FALSE, evening_start |-> 17 * 60,
                   evening_end |-> 23 * 60 + 59, check_interval_minutes |-> 20]
    /\ initial = 0
    /\ profile_posts = <<>>
    /\ last_shortcode = NoShortcode
    /\ state_file = NoFile
    /\ file_before = NoFile
    /\ pc = "setup"
    /\ posts = <<>>
    /\ idx = 0
    /\ channel = <<>>
    /\ result = "none"
    /\ crashes = 0

\* Post lists: sequences of distinct shortcodes, in any order.
PostLists ==
    UNION {{s \in [1..n -> 1..MaxShortcode] :
               \A i, j \in 1..n : i # j => s[i] # s[j]} : n \in 0..MaxShortcode}

InitFetch ==
    /\ NotRunning
    /\ call \in [fn : {"fetch"}, source : PostLists, cursor : 0..MaxShortcode,
                 max_posts : 1..MaxCount, done : {FALSE}, ret : {<<>>}]

CallFetch ==
    /\ call.fn = "fetch"
    /\ ~call.done
    /\ call' = [call EXCEPT !.done = TRUE,
                            !.ret = fetch_new_posts(call.source, call.cursor,
                                                    call.max_posts)]
    /\ UNCHANGED <<settings, profile_posts, last_shortcode, state_file, file_before,
                   pc, posts, idx, channel, result, crashes, initial>>

SpecFetch == InitFetch /\ [][CallFetch]_vars

InitWindow ==
    /\ NotRunning
    /\ call \in [fn : {"window"}, start : 0..MaxTime, end : 0..MaxTime,
                 now : 0..MaxTime, done : {FALSE}, ret : {FALSE}]

CallWindow ==
    /\ call.fn = "window"
    /\ ~call.done
    /\ call' = [call EXCEPT !.done = TRUE,
                            !.ret = within_evening_window(call.start, call.end,
                                                          call.now)]
    /\ UNCHANGED <<settings, profile_posts, last_shortcode, state_file, file_before,
                   pc, posts, idx, channel, result, crashes, initial>>

SpecWindow == InitWindow /\ [][CallWindow]_vars

\* ------------------------------------------------- BotState on its own
\* Cursor advances (the assignment and save() of bot.py:358-359, with the
\* save steps of the cycle), then a new BotState on the same path and its
\* load() as setup_hook runs it.
InitCursor ==
    /\ NotRunning
    /\ call = [fn |-> "state", n |-> 0, last |-> NoShortcode,
               reopened |-> FALSE, saved |-> FALSE]

CursorAdvance ==
    /\ call.fn = "state"
    /\ pc = "idle"
    /\ ~call.reopened
    /\ call.n < MaxAdvances
    /\ \E id \in 1..MaxShortcode :
         /\ last_shortcode' = id
         /\ call' = [call EXCEPT !.n = call.n + 1, !.last = id]
    /\ pc' = "save_open"
    /\ result' = "running"
    /\ UNCHANGED <<settings, profile_posts, state_file, file_before, posts, idx,
                   channel, crashes, initial>>

\* BotState(path) is constructed anew (bot.py:153-155); `saved` records
\* whether the last save() returned.
CursorReopen ==
    /\ call.fn = "state"
    /\ pc = "idle"
    /\ ~call.reopened
    /\ call.n >= 1
    /\ call' = [call EXCEPT !.reopened = TRUE, !.saved = (result = "done")]
    /\ last_shortcode' = NoShortcode
    /\ pc' = "setup"
    /\ UNCHANGED <<settings, profile_posts, state_file, file_before, posts, idx,
                   channel, result, crashes, initial>>

NextCursor ==
    \/ Setup
    \/ CursorAdvance
    \/ RelaySaveOpen
    \/ RelaySaveWrite
    \/ CursorReopen

SpecCursor == InitCursor /\ [][NextCursor]_vars

\* ------------------------------------------------------ media resolution
\* URLs are strings; NoUrl is a video_url of None (falsy in `a or b`).
NoUrl == ""
VideoUrls == {"video1.mp4", "video2.mp4"}
DisplayUrls == {"image1.jpg", "image2.jpg"}

\* Children of a sidecar as get_sidecar_nodes() yields them.
SidecarNodes == [video_url : VideoUrls \cup {NoUrl}, display_url : DisplayUrls]

NodeLists == UNION {[1..n -> SidecarNodes] : n \in 1..MaxChildren}

MediaPosts ==
    [typename : {"GraphSidecar"}, is_video : {FALSE}, video_url : {NoUrl},
     url : {"image1.jpg"}, nodes : NodeLists]
    \cup [typename : {"GraphVideo"}, is_video : {TRUE},
          video_url : VideoUrls \cup {NoUrl}, url : DisplayUrls, nodes : {<<>>}]
    \cup [typename : {"GraphImage"}, is_video : {FALSE}, video_url : {NoUrl},
          url : DisplayUrls, nodes : {<<>>}]

\* A resolver that always takes the child's display image.
NodeUrlDisplayOnly(node) == node.display_url

\* node.video_url or node.display_url
NodeUrl(node) == IF node.video_url # NoUrl THEN node.video_url ELSE node.display_url

\* The media_urls list built at the top of _relay_post.
media_urls(post) ==
    IF post.typename = "GraphSidecar"
    THEN [i \in 1..Len(post.nodes) |-> NodeUrl(post.nodes[i])]
    ELSE IF post.is_video /\ post.video_url # NoUrl
         THEN <<post.video_url>>
         ELSE <<post.url>>

InitMedia ==
    /\ NotRunning
    /\ \E post \in MediaPosts :
         call = [fn |-> "media", post |-> post, done |-> FALSE, ret |-> <<>>]

CallMedia ==
    /\ call.fn = "media"
    /\ ~call.done
    /\ call' = [call EXCEPT !.done = TRUE, !.ret = media_urls(call.post)]
    /\ UNCHANGED <<settings, profile_posts, last_shortcode, state_file, file_before,
                   pc, posts, idx, channel, result, crashes, initial>>

SpecMedia == InitMedia /\ [][CallMedia]_vars

\* ------------------------------------- message.edit errors left uncaught
\* The handler around message.edit names discord.HTTPException only
\* (bot.py:391-395). Any other exception of the request (a connection error,
\* a timeout) leaves _relay_post after the channel accepted the send, before
\* the loop assigns the cursor, and is caught in instagram_poll. Spec is the
\* program with a chat platform whose edit fails with HTTP errors only;
\* SpecEdit is the program without crashes where the edit fails in either way.
SuppressRaises ==
    /\ pc = "suppress"
    /\ Cardinality({i \in DOMAIN channel : channel[i] = posts[idx]}) <= MaxEditErrors
    /\ PollExcept("relay_failed")
    /\ UNCHANGED <<settings, profile_posts, last_shortcode, state_file, file_before,
                   posts, idx, channel, crashes, initial, call>>

NextEdit ==
    \/ Setup
    \/ Tick
    \/ SeedFetch
    \/ SeedSaveOpen
    \/ SeedSaveWrite
    \/ Fetch
    \/ Download
    \/ Send
    \/ Suppress
    \/ SuppressRaises
    \/ RelaySaveOpen
    \/ RelaySaveWrite
    \/ Publish

SpecEdit == Init /\ [][NextEdit]_vars

\* --------------------------------------------- ticks with their clock
\* The cycle without crashes, each tick leaving the clock reading it used in
\* `call`.
TickAt ==
    \E now \in TickTimes :
        /\ instagram_poll(now)
        /\ call' = [fn |-> "poll", now |-> now]

NextGate ==
    \/ Setup
    \/ TickAt
    \/ SeedFetch
    \/ SeedSaveOpen
    \/ SeedSaveWrite
    \/ Fetch
    \/ Download
    \/ Send
    \/ Suppress
    \/ RelaySaveOpen
    \/ RelaySaveWrite
    \/ Publish

SpecGate == Init /\ [][NextGate]_vars

\* ------------------------------------------------------ the interval gate
\* tasks.loop(minutes=1) ticks once a minute while the window is open; the
\* tick at minute `now` passes the gate when now.minute % n = 0, n the
\* check_interval_minutes read by read_env_int (at least 1). `last` is the
\* minute of the last passing tick (-1: none yet) and `gap` the distance
\* between the last two passing ticks (0: fewer than two yet).
InitClock ==
    /\ NotRunning
    /\ \E n \in 1..MaxInterval :
         call = [fn |-> "clock", n |-> n, now |-> 0, last |-> -1, gap |-> 0]

ClockTick ==
    /\ call.fn = "clock"
    /\ call.now < MaxMinutes
    /\ LET passes == Minute(call.now) % call.n = 0
       IN  call' = [call EXCEPT
                      !.now = call.now + 1,
                      !.last = IF passes THEN call.now ELSE @,
                      !.gap = IF passes /\ call.last >= 0 THEN call.now - call.last ELSE @]
    /\ UNCHANGED <<settings, profile_posts, last_shortcode, state_file, file_before,
                   pc, posts, idx, channel, result, crashes, initial>>

SpecClock == InitClock /\ [][ClockTick]_vars

\* =================================================================== claims
Sent == Range(channel)

TimesSent(p) == Cardinality({i \in 1..Len(channel) : channel[i] = p})

\* The for loop has passed the send of posts[j]; the batch is the running
\* cycle's or, between two fetches, the last cycle's.
SendSucceeded(j) ==
    \/ j < idx
    \/ j = idx /\ \/ pc \in {"suppress", "save_open", "save_write"}
                  \/ /\ pc \in {"idle", "fetch", "seed_fetch"}
                     /\ result \in {"save_failed", "done"}

\* C1: while and after a relay batch is worked through (idx >= 1; the seeding
\* branch leaves idx = 0), the cursor, in memory and in state.json, never names
\* a post of the batch whose send has not succeeded; a batch post the cursor
\* names is in the channel.
C1_CursorOnlyAfterSend ==
    idx >= 1 =>
        \A j \in 1..Len(posts) :
            /\ (result # "crashed" /\ ~SendSucceeded(j)) =>
                   /\ last_shortcode # posts[j]
                   /\ state_file # JsonFile(posts[j])
            /\ (last_shortcode = posts[j] \/ state_file = JsonFile(posts[j])) =>
                   posts[j] \in Sent

C1_Witness ==
    /\ pc = "idle"
    /\ result = "done"
    /\ Len(posts) = 3
    /\ idx = 3
    /\ last_shortcode = posts[3]
    /\ state_file = JsonFile(posts[3])
    /\ posts[3] \in Sent

\* C2: up to the first crash, no advance of the cursor passes a post that has
\* not been sent. Fetches return only posts newer than the cursor, so a post
\* the cursor has passed unsent is never sent: the claim that every post
\* published after the cursor post is eventually sent requires this.
C2_NoPostSkipped ==
    [][(crashes = 0 /\ crashes' = 0 /\ last_shortcode # NoShortcode
            /\ last_shortcode' # last_shortcode)
        => \A p \in (last_shortcode + 1)..last_shortcode' : p \in Range(channel')]_vars

C4_RetryKeepsOrder ==
    [][(pc = "fetch" /\ result = "relay_failed" /\ Len(posts) = 3 /\ idx = 2
            /\ pc' \in {"download", "idle"} /\ result' # "fetch_failed")
        => /\ last_shortcode = posts[1]
           /\ Len(posts') >= 2
           /\ posts'[1] = posts[2]
           /\ posts'[2] = posts[3]]_vars

\* What C5 says fetch_new_posts returns.
FirstIndexOf(L, c) == CHOOSE i \in 1..Len(L) : L[i] = c /\ \A k \in 1..(i - 1) : L[k] # c

NewerThanCursor(L, c) ==
    IF c # NoShortcode /\ c \in Range(L) THEN FirstIndexOf(L, c) - 1 ELSE Len(L)

\* C5: fetch_new_posts(c, m) returns, oldest first, the first min(m, n) posts
\* of the newest-first list, n the number of posts before the cursor post (all
\* of them when the cursor is absent or not in the list), never the cursor
\* post; [P5..P1] with cursor P3 and m = 3 gives [P4, P5], and with no cursor
\* and m = 1 gives [P5].
C5_FetchContract ==
    (call.fn = "fetch" /\ call.done) =>
        LET L == call.source
            k == Min(call.max_posts, NewerThanCursor(L, call.cursor))
        IN /\ Len(call.ret) = k
           /\ \A i \in 1..k : call.ret[i] = L[k + 1 - i]
           /\ call.cursor \notin Range(call.ret)
           /\ (L = <<5, 4, 3, 2, 1>> /\ call.cursor = 3 /\ call.max_posts = 3)
                  => call.ret = <<4, 5>>
           /\ (L = <<5, 4, 3, 2, 1>> /\ call.cursor = NoShortcode /\ call.max_posts = 1)
                  => call.ret = <<5>>

C5_Witness ==
    /\ call.fn = "fetch"
    /\ call.done
    /\ call.source = <<5, 4, 3, 2, 1>>
    /\ call.cursor = 3
    /\ call.max_posts = 3
    /\ call.ret = <<4, 5>>

Intact(file) == file.kind \in {"absent", "json"}

\* C7: a crash at any step of a save() that found state.json whole leaves the
\* file holding the old value or the new one, whole.
C7_SaveCrashAtomic ==
    [][(crashes' = crashes + 1
            /\ \/ pc \in {"save_open", "seed_save_open"} /\ Intact(state_file)
               \/ pc \in {"save_write", "seed_save_write"} /\ Intact(file_before))
        => state_file' \in {IF pc \in {"save_write", "seed_save_write"}
                            THEN file_before ELSE state_file,
                            JsonFile(last_shortcode)}]_vars

\* C8: after crashes and restarts a post has been sent at most once more
\* per crash; the first fetch after a restart returns only posts newer than
\* the cursor loaded from state.json; and the post in flight at the crash, if
\* the channel has not had it, is not passed over: a relay fetch that returns
\* a newer post returns it too, and a seeding fetch does not set the cursor
\* to it or beyond.
C8_CrashLosesNothing ==
    /\ [](\A p \in 1..MaxPosts : TimesSent(p) <= crashes + 1)
    /\ [][(result = "crashed" /\ pc \in {"fetch", "seed_fetch"}
               /\ result' \in {"running", "empty"})
           => LET p == posts[idx]
              IN /\ pc = "fetch" =>
                        \A q \in Range(posts') : q > last_shortcode
                 /\ (pc = "fetch" /\ p \notin Sent) =>
                        \A q \in Range(posts') : q > p => p \in Range(posts')
                 /\ (pc = "seed_fetch" /\ p \notin Sent) =>
                        last_shortcode' < p]_vars

\* C9: a cycle that failed, at its fetch, download, send or save, leaves the
\* loop of instagram_poll alive: the process is back between two ticks, where
\* the next tick can run, or already in the next cycle; the loop never stops.
C9_FailureKeepsLoop ==
    /\ pc # "stopped"
    /\ result \in {"fetch_failed", "relay_failed", "save_failed"} =>
           /\ pc \in {"idle", "seed_fetch", "fetch"}
           /\ pc = "idle" => ENABLED Tick

C9_Witness ==
    /\ result = "save_failed"
    /\ pc = "fetch"
    /\ crashes = 0

\* C10: within_evening_window is defined for every start, end and time; for
\* start <= end it is true exactly on start..end, both ends included, and for
\* start > end exactly outside the gap end+1..start-1.
C10_WindowContract ==
    (call.fn = "window" /\ call.done) =>
        /\ call.ret \in BOOLEAN
        /\ call.start <= call.end =>
               (call.ret <=> call.now \in call.start..call.end)
        /\ call.start > call.end =>
               (call.ret <=> call.now \notin (call.end + 1)..(call.start - 1))

C10_Witness ==
    /\ call.fn = "window"
    /\ call.done
    /\ call.start < call.end
    /\ call.now = call.end
    /\ call.ret

\* C11: after any sequence of cursor advances whose last save() returned, a
\* load() by a new BotState on the same path yields the shortcode of the last
\* advance, also when that shortcode was saved twice in a row; the file then
\* holds exactly that payload.
C11_AdvanceLoadRoundTrip ==
    (call.fn = "state" /\ call.reopened /\ call.saved) =>
        /\ state_file = JsonFile(call.last)
        /\ pc # "dead"
        /\ pc = "idle" => last_shortcode = call.last

C11_Witness ==
    /\ call.fn = "state"
    /\ call.reopened
    /\ call.saved
    /\ call.n = 3
    /\ pc = "idle"
    /\ last_shortcode = call.last
    /\ last_shortcode # NoShortcode

\* C12: a carousel resolves to one URL per child, in child order, the child's
\* video URL when it has one and its display URL otherwise; a single video
\* with a video URL resolves to that one URL and a single image to its one
\* display URL.
C12_MediaResolution ==
    (call.fn = "media" /\ call.done) =>
        LET post == call.post
            ret == call.ret
        IN  /\ post.typename = "GraphSidecar" =>
                /\ Len(ret) = Len(post.nodes)
                /\ \A i \in 1..Len(post.nodes) :
                     /\ post.nodes[i].video_url # NoUrl => ret[i] = post.nodes[i].video_url
                     /\ post.nodes[i].video_url = NoUrl => ret[i] = post.nodes[i].display_url
            /\ (post.typename = "GraphVideo" /\ post.video_url # NoUrl) =>
                ret = <<post.video_url>>
            /\ post.typename = "GraphImage" => ret = <<post.url>>

C12_Witness ==
    /\ call.fn = "media"
    /\ call.done
    /\ call.post.typename = "GraphSidecar"
    /\ Len(call.post.nodes) = 3
    /\ call.post.nodes[1].video_url = NoUrl
    /\ call.post.nodes[2].video_url = "video1.mp4"
    /\ call.post.nodes[3].video_url = NoUrl
    /\ call.post.nodes[3].display_url = "image2.jpg"
    /\ call.post.nodes[1].display_url = "image1.jpg"
    /\ call.ret = <<"image1.jpg", "video1.mp4", "image2.jpg">>

\* C13: a relaying cycle whose fetch returns takes min(3, n) posts, n the
\* number of posts newer than the cursor (all posts when the cursor is absent,
\* backfill enabled included); only the seeding fetch, with the cursor absent
\* and backfill disabled, is bounded by 1.
C13_FetchBound ==
    [][ /\ (pc = "fetch" /\ pc' \in {"download", "idle"} /\ result' \in {"running", "empty"}) =>
            Len(posts') = Min(3, NewerThanCursor(profile_posts, last_shortcode))
        /\ (pc = "seed_fetch" /\ result' = "seeded") =>
            (last_shortcode = NoShortcode /\ ~settings.backfill_on_start)
      ]_vars

\* C14: when the relay of post k of the batch fails (its download or its send
\* raises), the cycle ends at once with the channel, the cursor and the state
\* file as they were; a later post is sent only by a new cycle's own fetch.
\* Once the cycle has ended the cursor is post k-1 for k > 1, and for k = 1 no
\* step of the cycle has changed the cursor.
C14_FailureStopsBatch ==
    /\ [](result = "relay_failed" =>
            /\ pc \in {"idle", "fetch"}
            /\ idx \in 1..Len(posts)
            /\ idx > 1 => last_shortcode = posts[idx - 1]
            /\ idx = 1 => last_shortcode \notin Range(posts))
    /\ [][ /\ ( /\ crashes' = crashes
                /\ \/ pc = "download" /\ pc' \notin {"download", "send"}
                   \/ pc = "send" /\ pc' \notin {"send", "suppress"} ) =>
                    /\ pc' = "idle"
                    /\ result' = "relay_failed"
                    /\ UNCHANGED <<last_shortcode, state_file, channel, posts, idx>>
           /\ ( /\ crashes' = crashes
                /\ \/ pc \in {"idle", "fetch"}
                   \/ pc \in {"download", "send"} /\ idx = 1 ) =>
                    last_shortcode' = last_shortcode
           /\ channel' # channel =>
                (pc = "send" /\ result = "running" /\ channel' = Append(channel, posts[idx]))
           /\ (pc' = "send" /\ pc # "send") => (pc = "download" /\ UNCHANGED <<idx, posts>>)
           /\ (pc' = "download" /\ crashes' = crashes) =>
                \/ pc = "fetch" /\ idx' = 1
                \/ pc = "save_write" /\ idx' = idx + 1 /\ UNCHANGED posts
                \/ pc = "download" /\ UNCHANGED <<idx, posts>>
         ]_vars

C14_Witness ==
    /\ result = "relay_failed"
    /\ pc = "idle"
    /\ Len(posts) = 3
    /\ idx = 2
    /\ last_shortcode = posts[1]
    /\ posts[1] \in Sent
    /\ posts[2] \notin Sent
    /\ posts[3] \notin Sent

\* C15: a failed download sends nothing for the post and leaves the cursor and
\* the state file as they were, and the next cycle whose fetch returns has that
\* post in its batch again.
C15_FailedDownloadRetried ==
    [][ /\ (pc = "download" /\ pc' = "idle") =>
            /\ result' = "relay_failed"
            /\ UNCHANGED <<channel, last_shortcode, state_file>>
            /\ posts[idx] \notin Sent'
        /\ ( /\ pc = "fetch"
             /\ result = "relay_failed"
             /\ posts[idx] \notin Sent
             /\ pc' \in {"download", "idle"}
             /\ result' \in {"running", "empty"} ) =>
                posts[idx] \in Range(posts')
      ]_vars

\* C16: once the channel accepted the send of a post, the suppress request,
\* whether it returns or fails, is followed by the cursor assignment for that
\* post and its save; and a post already in the channel is not sent again.
C16_SuppressFailureAdvances ==
    [][ /\ (pc = "suppress" /\ pc' # "suppress") =>
            (pc' = "save_open" /\ last_shortcode' = posts[idx])
        /\ channel' # channel => posts[idx] \notin Range(channel)
      ]_vars

\* C17: every assignment to the cursor by the seeding branch or by the relay
\* loop names a post strictly newer than the one named before, and the channel
\* holds the posts oldest first: no post follows a newer one.
C17_ForwardOnly ==
    /\ [][ ( /\ pc \in {"seed_fetch", "suppress"}
             /\ crashes' = crashes
             /\ last_shortcode' # last_shortcode ) =>
                last_shortcode' > last_shortcode ]_vars
    /\ [](\A i, j \in 1..Len(channel) : i < j => channel[i] <= channel[j])

\* C18: a tick whose clock reading is outside the window, or whose minute is
\* not a multiple of check_interval_minutes, starts no fetch, sends nothing
\* and leaves the cursor in memory and the state file as they were.
C18_GatedTickFrame ==
    [][ ( /\ pc = "idle"
          /\ profile_posts' = profile_posts
          /\ call'.fn = "poll"
          /\ \/ ~within_evening_window(settings.evening_start, settings.evening_end,
                                       call'.now)
             \/ Minute(call'.now) % settings.check_interval_minutes # 0 ) =>
            /\ pc' = "idle"
            /\ posts' = <<>>
            /\ UNCHANGED <<last_shortcode, state_file, channel>>
      ]_vars

C18_Witness ==
    /\ call.fn = "poll"
    /\ pc = "idle"
    /\ result = "off_interval"
    /\ Minute(call.now) % settings.check_interval_minutes # 0
    /\ last_shortcode # NoShortcode
    /\ state_file = JsonFile(last_shortcode)
    /\ channel # <<>>
    /\ profile_posts[1] > last_shortcode

\* C19: between two ticks the cursor in memory is the one the state file
\* holds: both absent, or the file is the JSON payload naming the cursor.
C19_MemoryMatchesFile ==
    pc = "idle" =>
        \/ last_shortcode = NoShortcode /\ state_file = NoFile
        \/ last_shortcode # NoShortcode /\ state_file = JsonFile(last_shortcode)

\* C20: with the window open, two consecutive ticks that pass the interval
\* gate are exactly check_interval_minutes apart, for every interval of at
\* least 1, across hour boundaries too.
C20_PassingTicksApart ==
    (call.fn = "clock" /\ call.gap # 0) => call.gap = call.n

====
